---- MODULE Spec2Model ----
(***************************************************************************)
(* Model of src/src/seq2seq/training_utils.py: loss_batch (one batch       *)
(* through the encoder once and the decoder once per timestep) and fit     *)
(* (the epoch loop: training batches, validation passes, schedulers,       *)
(* teacher-forcing decay, best-checkpoint selection).                      *)
(*                                                                         *)
(* Tensors.  A tensor element is an integer in fixed point (2 units = 1),  *)
(* the value NaN, or the one value HalfEps below the grid (half the eps of *)
(* F.normalize).  A quaternion is a 4-tuple of elements, a frame is        *)
(* one timestep of a batch: a tuple of BatchSize quaternions (feature      *)
(* dimension 4).  outputs and the target batch are sequences of frames     *)
(* indexed by timestep (the code indexes [b, t, :]; the model [t+1][b]).   *)
(* Scalars that the code divides (the teacher-forcing ratio, the epoch     *)
(* means) are exact fractions num/den, with 1/0 = +inf and 0/0 = NaN.      *)
(* Wall-clock time and log output are not modelled.                        *)
(***************************************************************************)
EXTENDS Integers, Sequences, FiniteSets, TLC

\* ---------------------------------------------------------------- bounds
MaxLen == 3
BatchSize == 2
RandomGrid == 2
MaxEpochs == 4
MaxVal == 2
MaxCrit == 2
MaxSched == 2

\* The divisor of the progress cadence, len(train_dataloader) // 10.
ProgressDivisor == 10

\* ------------------------------------------------------------ float values
\* The float NaN as a tensor element or a scalar loss.
NaN == -1

IsNaN(x) == x = NaN

Abs(x) == IF x < 0 THEN -x ELSE x

FAdd(a, b) == IF IsNaN(a) \/ IsNaN(b) THEN NaN ELSE a + b

\* Fractions.
Frac(n, d) == [num |-> n, den |-> d]

InfR == Frac(1, 0)

NaNR == Frac(0, 0)

IsNaNR(a) == a.num = 0 /\ a.den = 0

\* a < b on floats: False whenever either side is NaN; nothing is below
\* itself; every finite value is below +inf.
RLt(a, b) ==
    /\ ~IsNaNR(a)
    /\ ~IsNaNR(b)
    /\ a.den # 0
    /\ IF b.den = 0 THEN TRUE ELSE a.num * b.den < b.num * a.den

RMul(a, b) == Frac(a.num * b.num, a.den * b.den)

REq(a, b) ==
    /\ ~IsNaNR(a)
    /\ ~IsNaNR(b)
    /\ a.num * b.den = b.num * a.den

\* ----------------------------------------------------------------- tensors
Samples == 1..BatchSize

Zero4 == <<0, 0, 0, 0>>

Ones4 == <<2, 2, 2, 2>>

NaN4 == <<NaN, NaN, NaN, NaN>>

ConstFrame(q) == [b \in Samples |-> q]

\* torch.zeros_like(target_batch[:, 0, :]): the EOS sentinel.
EOS == ConstFrame(Zero4)

\* torch.ones_like(target_batch[:, 0, :]): the first decoder input.
StartFrame == ConstFrame(Ones4)

\* The target batch at timestep t (0-based): every sample <<0, 2(t+1), 0, 0>>,
\* different from every decoder output below and from the start sentinel.
TargetFrame(t) == ConstFrame(<<0, 2 * (t + 1), 0, 0>>)

TargetBatch(len) == [i \in 1..len |-> TargetFrame(i - 1)]

\* torch.zeros_like(target_batch)
ZerosLike(len) == [i \in 1..len |-> EOS]

\* The frames the decoder (a black box) may return.
\* MixedFrame has sample 1 all zero and the other samples non-zero.
MixedFrame == [b \in Samples |-> IF b = 1 THEN Zero4 ELSE <<4, 0, 0, 0>>]

AxisFrame == ConstFrame(<<4, 0, 0, 0>>)

NaNFrame == ConstFrame(NaN4)

StubFrames == {EOS, MixedFrame, AxisFrame, NaNFrame}

\* The float eps / 2 = 5e-13, eps = 1e-12 being the default eps of
\* F.normalize: the one element value below the fixed-point grid.  A group
\* holds it only next to zeros, and only a normalizing call is given it.
HalfEps == -2

TinyFrame == ConstFrame(<<HalfEps, 0, 0, 0>>)

\* Integer square root (exact on the perfect squares the frames produce).
RECURSIVE ISqrtFrom(_, _)
ISqrtFrom(n, r) == IF (r + 1) * (r + 1) > n THEN r ELSE ISqrtFrom(n, r + 1)

ISqrt(n) == ISqrtFrom(n, 0)

QuatHasNaN(q) == \E i \in 1..4 : IsNaN(q[i])

\* A group of norm below eps or equal to it: zeros and eps / 2 only.
IsTiny(q) ==
    /\ \A i \in 1..4 : q[i] \in {0, HalfEps}
    /\ \E i \in 1..4 : q[i] = HalfEps

\* Mutant of NormalizeQuat: the division by max(norm, eps) is left out.
NormalizeQuatIdentity(q) == q

\* F.normalize(x, p=2, dim=1) on one row of the (-1, 4) view:
\* x / max(||x||_2, eps).  A zero row stays zero (0 / eps), a NaN row stays
\* NaN; a row of norm at most eps is divided by eps (eps / 2 becomes 0.5,
\* one unit); otherwise each element is divided by the norm (2 units = 1.0).
NormalizeQuat(q) ==
    IF QuatHasNaN(q) THEN NaN4
    ELSE IF IsTiny(q) THEN [i \in 1..4 |-> IF q[i] = HalfEps THEN 1 ELSE 0]
    ELSE LET n == ISqrt(q[1] * q[1] + q[2] * q[2] + q[3] * q[3] + q[4] * q[4])
         IN  IF n = 0 THEN q
             ELSE [i \in 1..4 |-> (q[i] * 2) \div n]

\* output.contiguous().view(-1, 4), normalize, .view(original_shape)
NormalizeFrame(f) == [b \in Samples |-> NormalizeQuat(f[b])]

\* torch.all(torch.eq(decoder_output, EOS)): NaN equals nothing.
AllEqEOS(f) == \A b \in Samples : \A i \in 1..4 : f[b][i] = 0

\* --------------------------------------------------------------- criteria
\* The criteria passed in are loss functions with mean reduction.  A loss
\* is kept as the sum over the elements (its unit is 1/(2 * numel), the
\* same for every batch of one run); NaN if any element is NaN.
ElemLoss(crit, o, t) ==
    IF IsNaN(o) \/ IsNaN(t) THEN NaN
    ELSE IF crit = "L1" THEN Abs(o - t) ELSE (o - t) * (o - t)

QuatLoss(crit, q, r) ==
    FAdd(FAdd(ElemLoss(crit, q[1], r[1]), ElemLoss(crit, q[2], r[2])),
         FAdd(ElemLoss(crit, q[3], r[3]), ElemLoss(crit, q[4], r[4])))

RECURSIVE SampleLossTo(_, _, _, _, _)
SampleLossTo(crit, outs, tgt, b, n) ==
    IF n = 0 THEN 0
    ELSE FAdd(SampleLossTo(crit, outs, tgt, b, n - 1),
              QuatLoss(crit, outs[n][b], tgt[n][b]))

\* criterion(outputs[b,:], target_batch[b,:])
SampleCriterion(crit, outs, tgt, b) == SampleLossTo(crit, outs, tgt, b, Len(tgt))

RECURSIVE BatchLossTo(_, _, _, _)
BatchLossTo(crit, outs, tgt, b) ==
    IF b = 0 THEN 0
    ELSE FAdd(BatchLossTo(crit, outs, tgt, b - 1), SampleCriterion(crit, outs, tgt, b))

\* criterion(outputs, target_batch)
Criterion(crit, outs, tgt) == BatchLossTo(crit, outs, tgt, BatchSize)

\* The number of elements the mean reduction divides by: those of the whole
\* batch at line 107, those of one sample at line 123.
BatchNumel(tgt) == BatchSize * Len(tgt) * 4

SampleNumel(tgt) == Len(tgt) * 4

\* The float a kept loss stands for (.item() at lines 119 and 124): the sum
\* over the elements divided by their number, an element's loss being in
\* units of 1/2 ("L1") or 1/4 (squared).
ItemValue(crit, s, numel) ==
    IF IsNaN(s) THEN NaNR
    ELSE Frac(s, (IF crit = "L1" THEN 2 ELSE 4) * numel)

\* np.sum(xs)
RECURSIVE NpSum(_)
NpSum(xs) == IF xs = <<>> THEN 0 ELSE FAdd(xs[1], NpSum(Tail(xs)))

\* np.sum(xs) / len(xs): 0.0 / 0 is NaN (numpy warns, it does not raise).
NpMean(xs) ==
    IF Len(xs) = 0 THEN NaNR
    ELSE IF IsNaN(NpSum(xs)) THEN NaNR
    ELSE Frac(NpSum(xs), Len(xs))

\* ------------------------------------------------------------------ state
VARIABLES
    \* arguments of the run, fixed from the start
    epochs, train_dataloader, val_dataloader, training_criterion,
    validation_criteria, schedulers, schedule_rate, norm_quaternions,
    use_attention, input_len, target_len, decoder_range,
    \* the models and the optimizers
    encoder_mode, decoder_mode, encoder_params, decoder_params,
    encoder_grad, decoder_grad, encoder_opt, decoder_opt,
    \* the running call of loss_batch
    lb_pc, opts, criterion, lb_teacher_forcing_ratio, average_batch,
    seq_length, t, decoder_hidden, decoder_input, outputs,
    use_teacher_forcing, loss, result, error,
    \* what the running call has done: its events in order, and every
    \* decoder invocation with the arguments it was given and what it returned
    trace, dec_calls,
    \* fit
    fit_pc, epoch, index, losses, crit_index, val_index, val_losses,
    val_loss, min_val_loss, teacher_forcing_ratio, sched_steps, checkpoint,
    \* what fit has done: the criterion-0 mean of every epoch that reached
    \* the checkpoint decision, the epochs (1-based) that wrote a checkpoint,
    \* the number of decays of the ratio, and the loss_batch calls of the
    \* running epoch in order, each with the arguments it was given
    val_history, saved_epochs, decays, epoch_calls

cfgVars == <<epochs, train_dataloader, val_dataloader, training_criterion,
             validation_criteria, schedulers, schedule_rate, norm_quaternions,
             use_attention, input_len, target_len, decoder_range>>

modelVars == <<encoder_mode, decoder_mode, encoder_params, decoder_params,
               encoder_grad, decoder_grad, encoder_opt, decoder_opt>>

argVars == <<opts, criterion, lb_teacher_forcing_ratio, average_batch>>

localVars == <<seq_length, t, decoder_hidden, decoder_input, outputs,
               use_teacher_forcing, loss, result>>

fitVars == <<fit_pc, epoch, index, losses, crit_index, val_index, val_losses,
             val_loss, min_val_loss, teacher_forcing_ratio, sched_steps,
             checkpoint, val_history, saved_epochs, decays, epoch_calls>>

vars == <<cfgVars, modelVars, lb_pc, argVars, localVars, error, trace,
          dec_calls, fitVars>>

\* ------------------------------------------------------------- loss_batch
\* The default of loss_batch's parameter teacher_forcing_ratio.
DefaultTeacherForcingRatio == Frac(0, 1)

\* random.random(): a float in [0, 1).
RandomDraws == {Frac(k, RandomGrid) : k \in 0..(RandomGrid - 1)}

\* The encoder's final hidden state, and the hidden state the decoder
\* returns from its step at timestep s.
EncoderHidden == <<"encoder">>

\* Mutant of DecoderHidden: the hidden state the decoder returns is dropped
\* and the encoder's is passed again.
DecoderHiddenDropped(s) == <<"encoder">>

DecoderHidden(s) == <<"decoder", s>>

\* Mutant of ModeFor: both models are put in training mode in every call.
ModeForTrainAlways(o) == "train"

\* encoder.train(), decoder.train() or encoder.eval(), decoder.eval()
ModeFor(o) == IF o # "None" THEN "train" ELSE "eval"

LBSetMode ==
    /\ lb_pc = "entry"
    /\ encoder_mode' = ModeFor(opts)
    /\ decoder_mode' = ModeFor(opts)
    /\ trace' = Append(trace, ModeFor(opts))
    /\ lb_pc' = "encode"
    /\ UNCHANGED <<cfgVars, encoder_params, decoder_params, encoder_grad,
                   decoder_grad, encoder_opt, decoder_opt, argVars, localVars,
                   error, dec_calls, fitVars>>

\* seq_length = input_batch.shape[1]
SeqLength == input_len

\* Lines 60-69: the encoder runs once over the input; the decoder starts
\* from the encoder's hidden state and the all-ones frame.
LBEncode ==
    /\ lb_pc = "encode"
    /\ seq_length' = SeqLength
    /\ trace' = Append(trace, "encoder")
    /\ decoder_hidden' = EncoderHidden
    /\ decoder_input' = StartFrame
    /\ outputs' = ZerosLike(target_len)
    /\ lb_pc' = "draw"
    /\ UNCHANGED <<cfgVars, modelVars, argVars, t, use_teacher_forcing, loss,
                   result, error, dec_calls, fitVars>>

\* Mutant of TeacherForcingDrawn: "<=" written for "<".
TeacherForcingDrawnOrEqual(r, ratio) == RLt(r, ratio) \/ REq(r, ratio)

\* use_teacher_forcing = True if random.random() < teacher_forcing_ratio
TeacherForcingDrawn(r, ratio) == RLt(r, ratio)

LBDraw ==
    /\ lb_pc = "draw"
    /\ \E r \in RandomDraws :
          use_teacher_forcing' = TeacherForcingDrawn(r, lb_teacher_forcing_ratio)
    /\ lb_pc' = "check"
    /\ UNCHANGED <<cfgVars, modelVars, argVars, seq_length, t, decoder_hidden,
                   decoder_input, outputs, loss, result, error, trace,
                   dec_calls, fitVars>>

\* Lines 73-77.  sys.exit() raises SystemExit; the module imports sys only
\* through "from .seq2seq import *", so the name may be unbound (NameError).
\* Either way the call ends there.
\* Mutant of Rejected: the combination is let through.
RejectedNever(avg, o) == FALSE

Rejected(avg, o) == ~avg /\ o # "None"

LBCheckAverage ==
    /\ lb_pc = "check"
    /\ IF Rejected(average_batch, opts)
       THEN /\ lb_pc' = "raised"
            /\ \E e \in {"SystemExit", "NameError"} : error' = e
       ELSE /\ lb_pc' = "loop"
            /\ error' = error
    /\ UNCHANGED <<cfgVars, modelVars, argVars, localVars, trace, dec_calls,
                   fitVars>>

\* Line 98: outputs[:, t, :] = output
WriteOutput(outs, s, f) == [outs EXCEPT ![s + 1] = f]

\* Lines 92-96
StepOutput(d) == IF norm_quaternions THEN NormalizeFrame(d) ELSE d

\* Mutant of IsBreak: the break is left out.
IsBreakNever(d) == FALSE

\* Line 103: the test that ends the unroll under self-feeding.
IsBreak(d) == AllEqEOS(d)

\* Mutant of NextDecoderInput: the target is fed after the first timestep
\* only, the model's own output after the later ones.
NextDecoderInputFirstOnly(tf, s, out) ==
    IF tf /\ s = 0 THEN TargetFrame(s) ELSE out

\* Lines 100-105: the next decoder input.
NextDecoderInput(tf, s, out) == IF tf THEN TargetFrame(s) ELSE out

\* One pass of the body of "for t in range(seq_length)", lines 79-105: the
\* decoder step, then target_batch[:, t, :] (an IndexError when t is past
\* the target's last timestep), the write to outputs, and the choice of the
\* next input or the break.  The loop ends after the pass t = seq_length-1.
LBDecode ==
    /\ lb_pc = "loop"
    /\ t < seq_length
    /\ \E d \in decoder_range :
          /\ dec_calls' = Append(dec_calls,
                 [input |-> decoder_input, hidden |-> decoder_hidden,
                  attention |-> use_attention, t |-> t, output |-> d])
          /\ trace' = Append(trace, "decoder")
          /\ decoder_hidden' = DecoderHidden(t)
          /\ IF t >= target_len
             THEN /\ lb_pc' = "raised"
                  /\ error' = "IndexError"
                  /\ UNCHANGED <<t, decoder_input, outputs>>
             ELSE /\ error' = error
                  /\ outputs' = WriteOutput(outputs, t, StepOutput(d))
                  /\ IF ~use_teacher_forcing /\ IsBreak(d)
                     THEN /\ lb_pc' = "criterion"
                          /\ UNCHANGED <<t, decoder_input>>
                     ELSE /\ decoder_input' =
                                NextDecoderInput(use_teacher_forcing, t, StepOutput(d))
                          /\ t' = t + 1
                          /\ lb_pc' = IF t + 1 < seq_length THEN "loop" ELSE "criterion"
    /\ UNCHANGED <<cfgVars, modelVars, argVars, seq_length,
                   use_teacher_forcing, loss, result, fitVars>>

\* Mutant of Optimizing: the training-only statements run in every call.
OptimizingAlways(o) == TRUE

\* Line 109: if opts is not None
Optimizing(o) == o # "None"

\* Line 107: loss = criterion(outputs, target_batch)
LBCriterion ==
    /\ lb_pc = "criterion"
    /\ loss' = Criterion(criterion, outputs, TargetBatch(target_len))
    /\ trace' = Append(trace, "criterion")
    /\ lb_pc' = IF Optimizing(opts) THEN "backward" ELSE "return"
    /\ UNCHANGED <<cfgVars, modelVars, argVars, seq_length, t, decoder_hidden,
                   decoder_input, outputs, use_teacher_forcing, result, error,
                   dec_calls, fitVars>>

\* Mutant of AfterTrainStep: the decoder's optimizer is stepped first.
AfterTrainStepDecoderFirst(pc) ==
    CASE pc = "backward" -> "decoder_opt.step"
      [] pc = "decoder_opt.step" -> "decoder_opt.zero_grad"
      [] pc = "decoder_opt.zero_grad" -> "encoder_opt.step"
      [] pc = "encoder_opt.step" -> "encoder_opt.zero_grad"
      [] pc = "encoder_opt.zero_grad" -> "return"

\* Lines 110-116: the statement after each of the training-only statements.
AfterTrainStep(pc) ==
    CASE pc = "backward" -> "encoder_opt.step"
      [] pc = "encoder_opt.step" -> "encoder_opt.zero_grad"
      [] pc = "encoder_opt.zero_grad" -> "decoder_opt.step"
      [] pc = "decoder_opt.step" -> "decoder_opt.zero_grad"
      [] pc = "decoder_opt.zero_grad" -> "return"

\* Line 110: loss.backward() leaves gradients on both models.
LBBackward ==
    /\ lb_pc = "backward"
    /\ encoder_grad' = TRUE
    /\ decoder_grad' = TRUE
    /\ trace' = Append(trace, "backward")
    /\ lb_pc' = AfterTrainStep(lb_pc)
    /\ UNCHANGED <<cfgVars, encoder_mode, decoder_mode, encoder_params,
                   decoder_params, encoder_opt, decoder_opt, argVars, localVars,
                   error, dec_calls, fitVars>>

\* Line 112: encoder_opt.step() updates the encoder's parameters.
LBEncoderOptStep ==
    /\ lb_pc = "encoder_opt.step"
    /\ encoder_params' = encoder_params + 1
    /\ encoder_opt' = encoder_opt + 1
    /\ trace' = Append(trace, "encoder_opt.step")
    /\ lb_pc' = AfterTrainStep(lb_pc)
    /\ UNCHANGED <<cfgVars, encoder_mode, decoder_mode, decoder_params,
                   encoder_grad, decoder_grad, decoder_opt, argVars, localVars,
                   error, dec_calls, fitVars>>

\* Line 113
LBEncoderOptZeroGrad ==
    /\ lb_pc = "encoder_opt.zero_grad"
    /\ encoder_grad' = FALSE
    /\ trace' = Append(trace, "encoder_opt.zero_grad")
    /\ lb_pc' = AfterTrainStep(lb_pc)
    /\ UNCHANGED <<cfgVars, encoder_mode, decoder_mode, encoder_params,
                   decoder_params, decoder_grad, encoder_opt, decoder_opt,
                   argVars, localVars, error, dec_calls, fitVars>>

\* Line 115
LBDecoderOptStep ==
    /\ lb_pc = "decoder_opt.step"
    /\ decoder_params' = decoder_params + 1
    /\ decoder_opt' = decoder_opt + 1
    /\ trace' = Append(trace, "decoder_opt.step")
    /\ lb_pc' = AfterTrainStep(lb_pc)
    /\ UNCHANGED <<cfgVars, encoder_mode, decoder_mode, encoder_params,
                   encoder_grad, decoder_grad, encoder_opt, argVars, localVars,
                   error, dec_calls, fitVars>>

\* Line 116
LBDecoderOptZeroGrad ==
    /\ lb_pc = "decoder_opt.zero_grad"
    /\ decoder_grad' = FALSE
    /\ trace' = Append(trace, "decoder_opt.zero_grad")
    /\ lb_pc' = AfterTrainStep(lb_pc)
    /\ UNCHANGED <<cfgVars, encoder_mode, decoder_mode, encoder_params,
                   decoder_params, encoder_grad, encoder_opt, decoder_opt,
                   argVars, localVars, error, dec_calls, fitVars>>

\* Mutant of ReturnValue: the per-sample list is built from the last sample
\* to the first.
ReturnValueReversed(avg, l, outs) ==
    IF avg THEN l
    ELSE [b \in Samples |->
            SampleCriterion(criterion, outs, TargetBatch(target_len),
                            BatchSize + 1 - b)]

\* Lines 118-126: the scalar loss, or the list of per-sample losses.
ReturnValue(avg, l, outs) ==
    IF avg THEN l
    ELSE [b \in Samples |->
            SampleCriterion(criterion, outs, TargetBatch(target_len), b)]

LBReturn ==
    /\ lb_pc = "return"
    /\ result' = ReturnValue(average_batch, loss, outputs)
    /\ lb_pc' = "returned"
    /\ UNCHANGED <<cfgVars, modelVars, argVars, seq_length, t, decoder_hidden,
                   decoder_input, outputs, use_teacher_forcing, loss, error,
                   trace, dec_calls, fitVars>>

LossBatchStep ==
    \/ LBSetMode
    \/ LBEncode
    \/ LBDraw
    \/ LBCheckAverage
    \/ LBDecode
    \/ LBCriterion
    \/ LBBackward
    \/ LBEncoderOptStep
    \/ LBEncoderOptZeroGrad
    \/ LBDecoderOptStep
    \/ LBDecoderOptZeroGrad
    \/ LBReturn

\* -------------------------------------------------------------------- fit
\* A call loss_batch(data, models, o, crit, device, ...): the arguments are
\* bound and the callee's locals are fresh.
FreshLocals ==
    /\ seq_length' = 0
    /\ t' = 0
    /\ decoder_hidden' = <<>>
    /\ decoder_input' = <<>>
    /\ outputs' = <<>>
    /\ use_teacher_forcing' = FALSE
    /\ loss' = 0
    /\ result' = 0
    /\ trace' = <<>>
    /\ dec_calls' = <<>>

EnterLossBatch(o, crit, ratio, avg) ==
    /\ lb_pc' = "entry"
    /\ opts' = o
    /\ criterion' = crit
    /\ lb_teacher_forcing_ratio' = ratio
    /\ average_batch' = avg
    /\ FreshLocals

\* Lines 150-153 and 165-168: fit passes neither teacher_forcing_ratio nor
\* average_batch, so loss_batch runs with its defaults.
FitCallRatio == DefaultTeacherForcingRatio

FitCallAverageBatch == TRUE

\* Mutant of ValOpts: the validation pass is given the optimizers.
ValOptsOptims == "optims"

\* Line 151: the optimizers of a training call; line 166: None.
TrainOpts == "optims"

ValOpts == "None"

CallRecord(o, crit, batch) ==
    [opts |-> o, criterion |-> crit, ratio |-> FitCallRatio, batch |-> batch,
     fit_ratio |-> teacher_forcing_ratio]

\* Lines 148-153: the next training batch goes to loss_batch with optims.
FitTrainCall ==
    /\ fit_pc = "train"
    /\ lb_pc = "idle"
    /\ index < train_dataloader
    /\ EnterLossBatch(TrainOpts, training_criterion, FitCallRatio, FitCallAverageBatch)
    /\ epoch_calls' = Append(epoch_calls, CallRecord(TrainOpts, training_criterion, index))
    /\ UNCHANGED <<cfgVars, modelVars, error, fit_pc, epoch, index, losses,
                   crit_index, val_index, val_losses, val_loss, min_val_loss,
                   teacher_forcing_ratio, sched_steps, checkpoint, val_history,
                   saved_epochs, decays>>

\* index % (len(train_dataloader) // 10): a modulo by zero when the loader
\* has fewer than 10 batches.
ProgressRaises == train_dataloader \div ProgressDivisor = 0

\* Lines 155-161: the loss is appended (losses is kept as its sum and its
\* length, all that line 174 reads), then the progress cadence is computed.
\* The callee's locals are gone once it has returned.
FitTrainReturn ==
    /\ fit_pc = "train"
    /\ lb_pc = "returned"
    /\ losses' = [sum |-> FAdd(losses.sum, result), len |-> losses.len + 1]
    /\ lb_pc' = "idle"
    /\ IF ProgressRaises
       THEN /\ fit_pc' = "aborted"
            /\ error' = "ZeroDivisionError"
            /\ index' = index
       ELSE /\ index' = index + 1
            /\ UNCHANGED <<fit_pc, error>>
    /\ FreshLocals
    /\ UNCHANGED <<cfgVars, modelVars, argVars, epoch, crit_index, val_index, val_losses, val_loss,
                   min_val_loss, teacher_forcing_ratio, sched_steps, checkpoint,
                   val_history, saved_epochs, decays, epoch_calls>>

\* Line 162: the training loader is exhausted; val_loss = [].
FitTrainEnd ==
    /\ fit_pc = "train"
    /\ lb_pc = "idle"
    /\ index = train_dataloader
    /\ fit_pc' = "val"
    /\ val_loss' = <<>>
    /\ crit_index' = 0
    /\ val_index' = 0
    /\ val_losses' = <<>>
    /\ UNCHANGED <<cfgVars, modelVars, lb_pc, argVars, localVars, error, trace,
                   dec_calls, epoch, index, losses, min_val_loss,
                   teacher_forcing_ratio, sched_steps, checkpoint, val_history,
                   saved_epochs, decays, epoch_calls>>

\* Lines 163-169: the next validation batch of the running criterion goes
\* to loss_batch with opts = None.
FitValCall ==
    /\ fit_pc = "val"
    /\ lb_pc = "idle"
    /\ crit_index < Len(validation_criteria)
    /\ val_index < val_dataloader
    /\ EnterLossBatch(ValOpts, validation_criteria[crit_index + 1], FitCallRatio,
                      FitCallAverageBatch)
    /\ epoch_calls' = Append(epoch_calls,
           CallRecord(ValOpts, validation_criteria[crit_index + 1], val_index))
    /\ UNCHANGED <<cfgVars, modelVars, error, fit_pc, epoch, index, losses,
                   crit_index, val_index, val_losses, val_loss, min_val_loss,
                   teacher_forcing_ratio, sched_steps, checkpoint, val_history,
                   saved_epochs, decays>>

FitValReturn ==
    /\ fit_pc = "val"
    /\ lb_pc = "returned"
    /\ val_losses' = Append(val_losses, result)
    /\ val_index' = val_index + 1
    /\ lb_pc' = "idle"
    /\ FreshLocals
    /\ UNCHANGED <<cfgVars, modelVars, argVars, error, fit_pc, epoch, index,
                   losses, crit_index, val_loss,
                   min_val_loss, teacher_forcing_ratio, sched_steps, checkpoint,
                   val_history, saved_epochs, decays, epoch_calls>>

\* Line 171: val_loss.append(np.sum(val_losses) / len(val_losses))
FitValMean ==
    /\ fit_pc = "val"
    /\ lb_pc = "idle"
    /\ crit_index < Len(validation_criteria)
    /\ val_index = val_dataloader
    /\ val_loss' = Append(val_loss, NpMean(val_losses))
    /\ crit_index' = crit_index + 1
    /\ val_index' = 0
    /\ val_losses' = <<>>
    /\ UNCHANGED <<cfgVars, modelVars, lb_pc, argVars, localVars, error, trace,
                   dec_calls, fit_pc, epoch, index, losses, min_val_loss,
                   teacher_forcing_ratio, sched_steps, checkpoint, val_history,
                   saved_epochs, decays, epoch_calls>>

\* Mutant of SteppedSchedulers: only the first scheduler is stepped.
SteppedFirstOnly(steps) ==
    [i \in DOMAIN steps |-> IF i = 1 THEN steps[i] + 1 ELSE steps[i]]

\* Lines 176-177: for scheduler in schedulers: scheduler.step()
SteppedSchedulers(steps) == [i \in DOMAIN steps |-> steps[i] + 1]

\* Lines 174-179: the mean training loss (only logged), then the schedulers.
FitSchedulers ==
    /\ fit_pc = "val"
    /\ lb_pc = "idle"
    /\ crit_index = Len(validation_criteria)
    /\ sched_steps' = SteppedSchedulers(sched_steps)
    /\ fit_pc' = "decay"
    /\ UNCHANGED <<cfgVars, modelVars, lb_pc, argVars, localVars, error, trace,
                   dec_calls, epoch, index, losses, crit_index, val_index,
                   val_losses, val_loss, min_val_loss, teacher_forcing_ratio,
                   checkpoint, val_history, saved_epochs, decays, epoch_calls>>

\* Line 181: teacher_forcing_ratio *= schedule_rate
DecayedRatio(r, s) == RMul(r, s)

FitDecay ==
    /\ fit_pc = "decay"
    /\ teacher_forcing_ratio' = DecayedRatio(teacher_forcing_ratio, schedule_rate)
    /\ decays' = decays + 1
    /\ fit_pc' = "select"
    /\ UNCHANGED <<cfgVars, modelVars, lb_pc, argVars, localVars, error, trace,
                   dec_calls, epoch, index, losses, crit_index, val_index,
                   val_losses, val_loss, min_val_loss, sched_steps, checkpoint,
                   val_history, saved_epochs, epoch_calls>>

\* Mutant of Improves: "<=" written for "<".
ImprovesOrEqual(v, best) == RLt(v, best) \/ REq(v, best)

\* Mutant of Improves: "not (min_val_loss <= val_loss[0])", true of a NaN.
ImprovesUnlessWorse(v, best) == ~(RLt(best, v) \/ REq(best, v))

\* Line 182: val_loss[0] < min_val_loss
Improves(v, best) == RLt(v, best)

\* Mutant of UpdatedMinValLoss: the best value seen is never updated.
UpdatedMinValLossKept(v, best) == best

\* Line 183: min_val_loss = val_loss[0]
UpdatedMinValLoss(v, best) == v

\* Lines 185-190: the dictionary torch.save writes.
Snapshot ==
    [encoder_state_dict |-> encoder_params,
     decoder_state_dict |-> decoder_params,
     optimizerA_state_dict |-> encoder_opt,
     optimizerB_state_dict |-> decoder_opt]

\* Lines 182-190, then the head of the next pass of the epoch loop (lines
\* 142-146).  val_loss[0] raises IndexError when validation_criteria is
\* empty.  The file at model_file_path is a sequence of at most one
\* snapshot: torch.save overwrites it.
FitSelect ==
    /\ fit_pc = "select"
    /\ IF Len(val_loss) = 0
       THEN /\ fit_pc' = "aborted"
            /\ error' = "IndexError"
            /\ UNCHANGED <<epoch, index, losses, min_val_loss, checkpoint,
                           val_history, saved_epochs, epoch_calls>>
       ELSE /\ error' = error
            /\ val_history' = Append(val_history, val_loss[1])
            /\ IF Improves(val_loss[1], min_val_loss)
               THEN /\ min_val_loss' = UpdatedMinValLoss(val_loss[1], min_val_loss)
                    /\ checkpoint' = <<Snapshot>>
                    /\ saved_epochs' = saved_epochs \cup {epoch + 1}
               ELSE UNCHANGED <<min_val_loss, checkpoint, saved_epochs>>
            /\ epoch' = epoch + 1
            /\ IF epoch + 1 < epochs
               THEN /\ fit_pc' = "train"
                    /\ losses' = [sum |-> 0, len |-> 0]
                    /\ index' = 0
                    /\ epoch_calls' = <<>>
               ELSE /\ fit_pc' = "done"
                    /\ UNCHANGED <<losses, index, epoch_calls>>
    /\ UNCHANGED <<cfgVars, modelVars, lb_pc, argVars, localVars, trace,
                   dec_calls, crit_index, val_index, val_losses, val_loss,
                   teacher_forcing_ratio, sched_steps, decays>>

\* An exception raised inside loss_batch is caught nowhere in fit.
FitPropagate ==
    /\ fit_pc \in {"train", "val"}
    /\ lb_pc = "raised"
    /\ fit_pc' = "aborted"
    /\ UNCHANGED <<cfgVars, modelVars, lb_pc, argVars, localVars, error, trace,
                   dec_calls, epoch, index, losses, crit_index, val_index,
                   val_losses, val_loss, min_val_loss, teacher_forcing_ratio,
                   sched_steps, checkpoint, val_history, saved_epochs, decays,
                   epoch_calls>>

FitStep ==
    \/ FitTrainCall
    \/ FitTrainReturn
    \/ FitTrainEnd
    \/ FitValCall
    \/ FitValReturn
    \/ FitValMean
    \/ FitSchedulers
    \/ FitDecay
    \/ FitSelect
    \/ FitPropagate

\* ------------------------------------------------------------ specifications
\* The state before fit or loss_batch has run: fresh models (a torch module
\* starts in training mode), optimizers that have not stepped, no file at
\* model_file_path, min_val_loss = math.inf.
Fresh ==
    /\ encoder_mode = "train"
    /\ decoder_mode = "train"
    /\ encoder_params = 0
    /\ decoder_params = 0
    /\ encoder_grad = FALSE
    /\ decoder_grad = FALSE
    /\ encoder_opt = 0
    /\ decoder_opt = 0
    /\ seq_length = 0
    /\ t = 0
    /\ decoder_hidden = <<>>
    /\ decoder_input = <<>>
    /\ outputs = <<>>
    /\ use_teacher_forcing = FALSE
    /\ loss = 0
    /\ result = 0
    /\ error = "none"
    /\ trace = <<>>
    /\ dec_calls = <<>>
    /\ epoch = 0
    /\ index = 0
    /\ losses = [sum |-> 0, len |-> 0]
    /\ crit_index = 0
    /\ val_index = 0
    /\ val_losses = <<>>
    /\ val_loss = <<>>
    /\ min_val_loss = InfR
    /\ sched_steps = [i \in 1..schedulers |-> 0]
    /\ checkpoint = <<>>
    /\ val_history = <<>>
    /\ saved_epochs = {}
    /\ decays = 0
    /\ epoch_calls = <<>>

\* The first n validation criteria of a run.
Criteria(n) == [i \in 1..n |-> IF i % 2 = 1 THEN "L1" ELSE "MSE"]

Ratios == {Frac(0, 1), Frac(1, 2), Frac(1, 1)}

Rates == {Frac(1, 2), Frac(1, 1)}

\* Decoder outputs whose L1 losses against a one-step target are
\* 9, 7, 8 and 5 times BatchSize.
GradedFrame(k) == ConstFrame(<<k, 2, 0, 0>>)

GradedFrames == {GradedFrame(9), GradedFrame(7), GradedFrame(8), GradedFrame(5)}

\* Runs of fit with a full training loader.
InitTraining ==
    /\ train_dataloader = ProgressDivisor
    /\ val_dataloader \in 1..MaxVal
    /\ validation_criteria \in {Criteria(n) : n \in 1..MaxCrit}
    /\ schedulers = MaxSched
    /\ schedule_rate = Frac(1, 2)
    /\ teacher_forcing_ratio = Frac(1, 1)
    /\ norm_quaternions = TRUE
    /\ input_len = 1
    /\ target_len = 1
    /\ decoder_range = {AxisFrame, NaNFrame}

\* Runs of fit with a training loader of no batch (a dataset smaller than
\* one batch under drop_last; the progress cadence is never computed), any
\* validation loader, criteria and schedulers.
InitValidationOnly ==
    /\ train_dataloader = 0
    /\ val_dataloader \in 0..MaxVal
    /\ validation_criteria \in {Criteria(n) : n \in 0..MaxCrit}
    /\ schedulers \in 0..MaxSched
    /\ schedule_rate \in Rates
    /\ teacher_forcing_ratio = Frac(1, 2)
    /\ norm_quaternions = FALSE
    /\ input_len = 1
    /\ target_len = 1
    /\ decoder_range = {AxisFrame, NaNFrame}

\* Runs whose validation means take four graded values.
InitGraded ==
    /\ train_dataloader = 0
    /\ val_dataloader = 1
    /\ validation_criteria = Criteria(1)
    /\ schedulers = 1
    /\ schedule_rate = Frac(1, 1)
    /\ teacher_forcing_ratio \in Ratios
    /\ norm_quaternions = FALSE
    /\ input_len = 1
    /\ target_len = 1
    /\ decoder_range = GradedFrames

\* Runs whose validation batches are several and whose losses take two
\* finite values, so that the epoch means rise, fall and repeat.
InitTwoLevel ==
    /\ train_dataloader = 0
    /\ val_dataloader = MaxVal
    /\ validation_criteria = Criteria(1)
    /\ schedulers = 1
    /\ schedule_rate = Frac(1, 2)
    /\ teacher_forcing_ratio = Frac(1, 1)
    /\ norm_quaternions = TRUE
    /\ input_len = 1
    /\ target_len = 1
    /\ decoder_range = {EOS, AxisFrame}

\* Runs that train between validations whose means take two finite values:
\* the parameters differ from one epoch's end to the next.
InitBestEpoch ==
    /\ train_dataloader = ProgressDivisor
    /\ val_dataloader = 1
    /\ validation_criteria = Criteria(1)
    /\ schedulers = 1
    /\ schedule_rate = Frac(1, 1)
    /\ teacher_forcing_ratio = Frac(0, 1)
    /\ norm_quaternions = FALSE
    /\ input_len = 1
    /\ target_len = 1
    /\ decoder_range = {EOS, AxisFrame}

\* Runs that fit cannot finish: a training loader of fewer than 10 batches,
\* or an input longer than the target.
InitShort ==
    /\ train_dataloader \in {1, ProgressDivisor}
    /\ val_dataloader = 1
    /\ validation_criteria = Criteria(1)
    /\ schedulers = 1
    /\ schedule_rate = Frac(1, 2)
    /\ teacher_forcing_ratio = Frac(1, 1)
    /\ norm_quaternions = FALSE
    /\ \/ train_dataloader = 1 /\ input_len = 1 /\ target_len = 1
       \/ input_len = 2 /\ target_len = 1
    /\ decoder_range = {AxisFrame}

Init ==
    /\ epochs = MaxEpochs
    /\ training_criterion = "L1"
    /\ use_attention = FALSE
    /\ \/ InitTraining
       \/ InitValidationOnly
       \/ InitGraded
       \/ InitTwoLevel
       \/ InitBestEpoch
       \/ InitShort
    /\ fit_pc = "train"
    /\ lb_pc = "idle"
    /\ opts = "None"
    /\ criterion = "L1"
    /\ lb_teacher_forcing_ratio = DefaultTeacherForcingRatio
    /\ average_batch = TRUE
    /\ Fresh

Next ==
    \/ FitStep
    \/ LossBatchStep

Spec == Init /\ [][Next]_vars

\* One direct call of loss_batch, with any arguments.
InitBatch ==
    /\ epochs = 0
    /\ train_dataloader = 0
    /\ val_dataloader = 0
    /\ training_criterion = "L1"
    /\ validation_criteria = <<>>
    /\ schedulers = 0
    /\ schedule_rate = Frac(1, 1)
    /\ teacher_forcing_ratio = Frac(0, 1)
    /\ norm_quaternions \in BOOLEAN
    /\ use_attention \in BOOLEAN
    /\ input_len \in 1..MaxLen
    /\ target_len \in 1..MaxLen
    /\ decoder_range = IF norm_quaternions THEN StubFrames \cup {TinyFrame}
                                           ELSE StubFrames
    /\ fit_pc = "direct"
    /\ lb_pc = "entry"
    /\ opts \in {"None", "optims"}
    /\ criterion = "L1"
    /\ lb_teacher_forcing_ratio \in Ratios
    /\ average_batch \in BOOLEAN
    /\ Fresh

NextBatch == LossBatchStep

SpecBatch == InitBatch /\ [][NextBatch]_vars

\* ------------------------------------------------------------------ claims
\* An epoch mean h is strictly below an earlier epoch mean g.
StrictlyBelow(h, g) == h.num * g.den < g.num * h.den

\* The first four entries of h are in the proportions 9 : 7 : 8 : 5.
GradedPattern(h) ==
    /\ Len(h) >= 4
    /\ h[1].num > 0
    /\ \A k \in 1..4 :
          /\ h[k].den # 0
          /\ h[k].num * h[1].den * 9 = <<9, 7, 8, 5>>[k] * h[1].num * h[k].den

\* C1: in fit, epoch e writes a checkpoint if and only if its criterion-0
\* validation mean is a number strictly lower than the mean of every earlier
\* epoch (NaN means aside; the best seen starts at +inf, so the first epoch
\* with a finite mean writes); an epoch whose mean equals or exceeds the best
\* seen writes nothing.  For means in the proportions [0.9, 0.7, 0.8, 0.5]
\* the writes are after epochs 1, 2 and 4 and not after epoch 3.
C1_WriteIffStrictlyLower ==
    /\ saved_epochs \subseteq 1..Len(val_history)
    /\ \A e \in 1..Len(val_history) :
          (e \in saved_epochs) <=>
              /\ ~IsNaNR(val_history[e])
              /\ \A j \in 1..(e - 1) :
                    IsNaNR(val_history[j]) \/ StrictlyBelow(val_history[e], val_history[j])
    /\ GradedPattern(val_history) => saved_epochs \cap (1..4) = {1, 2, 4}
    /\ (checkpoint = <<>>) <=> (saved_epochs = {})

C1_Witness ==
    /\ GradedPattern(val_history)
    /\ saved_epochs \cap (1..4) = {1, 2, 4}
    /\ checkpoint # <<>>
    /\ epoch >= 4

\* C2 (as claimed): every training-mode call of loss_batch that fit makes
\* receives the trainer's current teacher-forcing ratio.
C2_TrainingCallGetsCurrentRatio ==
    (fit_pc = "train" /\ lb_pc \notin {"idle", "returned"} /\ opts = "optims") =>
        REq(lb_teacher_forcing_ratio, teacher_forcing_ratio)

\* C3 (as claimed): when loss_batch rejects average_batch = false with
\* optimizers, neither the encoder nor the decoder has been invoked.
C3_RejectedBeforeForward ==
    (lb_pc = "raised" /\ error \in {"SystemExit", "NameError"}) =>
        \A i \in 1..Len(trace) : trace[i] \notin {"encoder", "decoder"}

AllZeroFrame(f) == \A b \in DOMAIN f : \A i \in DOMAIN f[b] : f[b][i] = 0

\* C4: under self-feeding, once the decoder has returned an all-zero frame
\* at timestep k the unroll has stopped: that invocation is the last one,
\* and every position of outputs from k on is all zeros (so it is when the
\* loss is computed).
C4_EosStopsUnroll ==
    ~use_teacher_forcing =>
        \A i \in 1..Len(dec_calls) :
            AllZeroFrame(dec_calls[i].output) =>
                /\ i = Len(dec_calls)
                /\ lb_pc # "loop"
                /\ \A j \in i..Len(outputs) : AllZeroFrame(outputs[j])

C4_Witness ==
    /\ lb_pc = "returned"
    /\ ~use_teacher_forcing
    /\ norm_quaternions
    /\ seq_length = 3
    /\ target_len = 3
    /\ Len(dec_calls) = 2
    /\ AllZeroFrame(dec_calls[2].output)
    /\ ~AllZeroFrame(outputs[1])
    /\ AllZeroFrame(outputs[2])
    /\ AllZeroFrame(outputs[3])

\* C5: the first decoder input is the all-ones frame; with a ratio of
\* exactly 1 every later decoder input is the target of the preceding
\* timestep, whatever the decoder returned; with a ratio of exactly 0 every
\* later decoder input is the output written for the preceding timestep and
\* is no target frame.  Every outcome of the random draw is covered.
C5_TeacherForcingDeterminism ==
    \A i \in 1..Len(dec_calls) :
        /\ i = 1 => dec_calls[i].input = StartFrame
        /\ (i > 1 /\ REq(lb_teacher_forcing_ratio, Frac(1, 1))) =>
              dec_calls[i].input = TargetFrame(i - 2)
        /\ (i > 1 /\ REq(lb_teacher_forcing_ratio, Frac(0, 1))) =>
              /\ dec_calls[i].input = outputs[i - 1]
              /\ \A s \in 0..(target_len + 1) : dec_calls[i].input # TargetFrame(s)

C5_Witness ==
    /\ lb_pc = "returned"
    /\ REq(lb_teacher_forcing_ratio, Frac(1, 1))
    /\ Len(dec_calls) = 3
    /\ AllZeroFrame(dec_calls[1].output)
    /\ dec_calls[2].input = TargetFrame(0)
    /\ dec_calls[3].input = TargetFrame(1)
    /\ outputs[2] # TargetFrame(1)

\* C6 (as claimed): whatever the lengths of input and target, every decoder
\* step is for a timestep inside the target's range, and a call that
\* returns without an EOS stop has made one decoder step per target
\* timestep.
C6_UnrollOverTargetRange ==
    /\ \A i \in 1..Len(dec_calls) : dec_calls[i].t < target_len
    /\ error # "IndexError"
    /\ (/\ lb_pc = "returned"
        /\ \A i \in 1..Len(dec_calls) : ~AllZeroFrame(dec_calls[i].output))
       => Len(dec_calls) = target_len

\* A NaN batch loss has been recorded by fit (an empty validation loader
\* gives a NaN mean without any batch).
NaNLossRecorded ==
    \/ IsNaN(losses.sum)
    \/ \E i \in 1..Len(val_losses) : IsNaN(val_losses[i])
    \/ /\ val_dataloader > 0
       /\ \/ \E i \in 1..Len(val_loss) : IsNaNR(val_loss[i])
          \/ \E e \in 1..Len(val_history) : IsNaNR(val_history[e])

TrainTail ==
    <<"criterion", "backward", "encoder_opt.step", "encoder_opt.zero_grad",
      "decoder_opt.step", "decoder_opt.zero_grad">>

ExpectedTrainTrace(n) ==
    <<"train", "encoder">> \o [i \in 1..n |-> "decoder"] \o TrainTail

IsPrefix(a, b) == Len(a) <= Len(b) /\ \A i \in 1..Len(a) : a[i] = b[i]

\* C8: in a training-mode call the events come in the order train(),
\* encoder, the decoder steps, criterion, backward, encoder_opt.step,
\* encoder_opt.zero_grad, decoder_opt.step, decoder_opt.zero_grad, each of
\* the last six exactly once in a call that returns; and when fit's next
\* training call reaches the encoder, every earlier training call has
\* stepped and zeroed both optimizers.
C8_TrainingOrder ==
    /\ (opts = "optims" /\ lb_pc # "idle") =>
          IsPrefix(trace, ExpectedTrainTrace(Len(dec_calls)))
    /\ (opts = "optims" /\ lb_pc = "returned") =>
          /\ trace = ExpectedTrainTrace(Len(dec_calls))
          /\ Len(dec_calls) >= 1
    /\ (fit_pc = "train" /\ lb_pc = "encode") =>
          /\ encoder_opt = epoch * train_dataloader + index
          /\ decoder_opt = epoch * train_dataloader + index
          /\ ~encoder_grad
          /\ ~decoder_grad

C8_Witness ==
    /\ fit_pc = "train"
    /\ lb_pc = "returned"
    /\ opts = "optims"
    /\ epoch = 1
    /\ index = 2
    /\ encoder_opt = ProgressDivisor + 3
    /\ decoder_opt = ProgressDivisor + 3

\* The calls of one whole epoch: the training batches in order, then for
\* each validation criterion in order every validation batch in order.
ExpectedEpochCalls ==
    LET n == train_dataloader
        m == val_dataloader
    IN  [i \in 1..(n + Len(validation_criteria) * m) |->
           IF i <= n
           THEN [opts |-> "optims", criterion |-> training_criterion, batch |-> i - 1]
           ELSE [opts |-> "None",
                 criterion |-> validation_criteria[((i - n - 1) \div m) + 1],
                 batch |-> (i - n - 1) % m]]

CallsMade ==
    [i \in 1..Len(epoch_calls) |->
        [opts |-> epoch_calls[i].opts, criterion |-> epoch_calls[i].criterion,
         batch |-> epoch_calls[i].batch]]

RECURSIVE Total(_)
Total(xs) == IF Len(xs) = 0 THEN 0 ELSE xs[1] + Total(Tail(xs))

IsMeanOf(m, xs) ==
    IF Len(xs) = 0 \/ (\E i \in 1..Len(xs) : IsNaN(xs[i]))
    THEN IsNaNR(m)
    ELSE m.den # 0 /\ m.num * Len(xs) = Total(xs) * m.den

C9_PassesInOrder ==
    /\ fit_pc \in {"decay", "select"} => CallsMade = ExpectedEpochCalls
    /\ (fit_pc = "val" /\ lb_pc # "idle") =>
          /\ opts = "None"
          /\ index = train_dataloader
          /\ \A i \in 1..schedulers : sched_steps[i] = epoch
          /\ decays = epoch
          /\ saved_epochs \subseteq 1..epoch
    /\ fit_pc \in {"decay", "select"} => Len(val_loss) = Len(validation_criteria)

C9_MeanRecorded ==
    Len(val_loss') = Len(val_loss) + 1 =>
        /\ Len(val_losses) = val_dataloader
        /\ IsMeanOf(val_loss'[Len(val_loss')], val_losses)

\* C9: in every epoch that gets through its validation, the calls of
\* loss_batch are the training batches and then, for each validation
\* criterion in the order given, one pass over every validation batch with
\* opts = None; all of them come before the schedulers step, the ratio
\* decays and the checkpoint is decided; the value recorded for a criterion
\* is the mean of the losses of its pass.
C9_ValidationPasses == []C9_PassesInOrder /\ [][C9_MeanRecorded]_vars

C9_Witness ==
    /\ fit_pc = "decay"
    /\ epoch = 1
    /\ train_dataloader = ProgressDivisor
    /\ val_dataloader = 2
    /\ Len(validation_criteria) = 2
    /\ Len(epoch_calls) = ProgressDivisor + 4
    /\ ~IsNaNR(val_loss[1])
    /\ ~IsNaNR(val_loss[2])

\* C10: every scheduler has been stepped once for each epoch that got as
\* far as the scheduler loop, so exactly E times after E completed epochs,
\* whatever the loaders hold and whether or not an epoch wrote a checkpoint.
C10_SchedulersOncePerEpoch ==
    /\ DOMAIN sched_steps = 1..schedulers
    /\ \A i \in 1..schedulers :
          /\ fit_pc \in {"train", "val", "done"} => sched_steps[i] = epoch
          /\ fit_pc \in {"decay", "select"} => sched_steps[i] = epoch + 1
          /\ sched_steps[i] = IF fit_pc = "decay" THEN decays + 1 ELSE decays

C10_Witness ==
    /\ fit_pc = "done"
    /\ epoch = epochs
    /\ train_dataloader = ProgressDivisor
    /\ val_dataloader = 2
    /\ schedulers = 2
    /\ sched_steps[1] = epochs
    /\ sched_steps[2] = epochs
    /\ saved_epochs = {1}

\* C11 (as claimed): for a training loader of at least one batch, fewer than
\* 10 included, computing the progress cadence aborts nothing: fit is never
\* ended by the modulo of line 157, and a training batch that has returned
\* is followed by the next one.
C11_ProgressNeverAborts ==
    train_dataloader >= 1 =>
        /\ error # "ZeroDivisionError"
        /\ fit_pc = "aborted" => lb_pc = "raised"

\* The loss of sample b summed directly over the timesteps of outputs.
RECURSIVE DirectSampleSum(_, _)
DirectSampleSum(b, n) ==
    IF n = 0 THEN 0
    ELSE FAdd(DirectSampleSum(b, n - 1),
              QuatLoss(criterion, outputs[n][b], TargetFrame(n - 1)[b]))

\* The mean of a list of floats that share one denominator.
ListMean(xs) ==
    IF \E b \in DOMAIN xs : IsNaNR(xs[b]) THEN NaNR
    ELSE Frac(Total([b \in DOMAIN xs |-> xs[b].num]), Len(xs) * xs[1].den)

SameFloat(a, b) == (IsNaNR(a) /\ IsNaNR(b)) \/ REq(a, b)

\* C12: an evaluation-mode call with average_batch = false returns a list
\* with one entry per sample of the batch, entry b being the criterion of
\* sample b's outputs against sample b's targets; the scalar the same call
\* would return with average_batch = true (the loss of line 107, computed
\* from the same outputs) is the mean of that list (NaN when an entry is
\* NaN).  With average_batch = true the call returns that scalar.
C12_BatchSampleConsistency ==
    lb_pc = "returned" =>
        IF average_batch
        THEN result = loss
        ELSE /\ opts = "None"
             /\ DOMAIN result = Samples
             /\ \A b \in Samples : result[b] = DirectSampleSum(b, target_len)
             /\ LET tgt == TargetBatch(target_len)
                    items == [b \in Samples |->
                                ItemValue(criterion, result[b], SampleNumel(tgt))]
                    scalar == ItemValue(criterion,
                                        ReturnValue(TRUE, loss, outputs),
                                        BatchNumel(tgt))
                IN  SameFloat(scalar, ListMean(items))

C12_Witness ==
    /\ lb_pc = "returned"
    /\ ~average_batch
    /\ opts = "None"
    /\ target_len = MaxLen
    /\ Len(dec_calls) = MaxLen
    /\ dec_calls[1].output = MixedFrame
    /\ dec_calls[2].output = AxisFrame
    /\ result[1] # result[2]
    /\ ~IsNaN(loss)
    /\ loss > 0

\* The square of the L2 norm of a group, in squared units (norm 1 is 4).
NormSq(q) == q[1] * q[1] + q[2] * q[2] + q[3] * q[3] + q[4] * q[4]

\* The groups of 4 channels the decoder has returned in a normalizing call.
NormalizedGroups ==
    IF norm_quaternions
    THEN {dec_calls[i].output[b] : i \in 1..Len(dec_calls), b \in Samples}
    ELSE {}

\* C13 (as claimed): normalizing a decoder output twice gives what
\* normalizing it once gives, and after one application every group of 4
\* channels has L2 norm 1.
C13_NormalizeIdempotent ==
    \A q \in NormalizedGroups :
        /\ NormalizeQuat(NormalizeQuat(q)) = NormalizeQuat(q)
        /\ NormSq(NormalizeQuat(q)) = 4

\* C13 (amended): a group without NaN whose norm exceeds eps comes out with
\* norm 1 and a second application leaves it as it is; an all-zero group
\* stays all zero (norm 0) and a NaN group stays NaN, fixed points that do
\* not have norm 1; a non-zero group of norm below eps is only divided by
\* eps, so it comes out with a norm below 1 and a second application
\* changes it again.  What loss_batch writes to outputs for the timestep is
\* the once-normalized decoder output.
C13_IdempotentAboveEps ==
    /\ \A q \in NormalizedGroups :
          LET once == NormalizeQuat(q)
              twice == NormalizeQuat(once)
          IN  IF QuatHasNaN(q) THEN once = NaN4 /\ twice = once
              ELSE IF q = Zero4 THEN once = Zero4 /\ twice = once
              ELSE IF IsTiny(q)
                   THEN /\ NormSq(once) < 4
                        /\ twice # once
                        /\ NormSq(twice) = 4
              ELSE /\ NormSq(once) = 4
                   /\ twice = once
    /\ norm_quaternions =>
          \A i \in 1..Len(dec_calls) :
              (dec_calls[i].t < Len(outputs) /\ lb_pc # "raised") =>
                  outputs[dec_calls[i].t + 1] = NormalizeFrame(dec_calls[i].output)

C13_Witness ==
    /\ lb_pc = "returned"
    /\ norm_quaternions
    /\ Len(dec_calls) = 3
    /\ dec_calls[1].output = AxisFrame
    /\ dec_calls[2].output = TinyFrame
    /\ dec_calls[3].output = MixedFrame
    /\ outputs[1] = ConstFrame(<<2, 0, 0, 0>>)
    /\ outputs[2] = ConstFrame(<<1, 0, 0, 0>>)
    /\ outputs[3][1] = Zero4

TrainingOnlyEvents ==
    {"backward", "encoder_opt.step", "encoder_opt.zero_grad",
     "decoder_opt.step", "decoder_opt.zero_grad"}

\* The optimizer steps made once k training batches have been stepped.
SteppedOnceEach(k) ==
    /\ encoder_opt = k
    /\ decoder_opt = k
    /\ encoder_params = k
    /\ decoder_params = k
    /\ ~encoder_grad
    /\ ~decoder_grad

C14_NoTrainingEventInEval ==
    /\ (opts = "None" /\ lb_pc # "idle") =>
          \A i \in 1..Len(trace) : trace[i] \notin TrainingOnlyEvents
    /\ (fit_pc \in {"train", "val", "decay", "select"} /\
          (lb_pc = "idle" \/ opts = "None")) =>
          SteppedOnceEach(epoch * train_dataloader + index)
    /\ fit_pc = "done" => SteppedOnceEach(epochs * train_dataloader)

C14_EvalStepFrame ==
    ((opts = "None" /\ lb_pc # "idle") \/ fit_pc = "val") =>
        UNCHANGED <<encoder_params, decoder_params, encoder_opt, decoder_opt,
                    encoder_grad, decoder_grad>>

\* C14: no step of a call without optimizers, and no step of a validation
\* pass, changes the parameters, the optimizers' state or the gradients,
\* and such a call makes no backward, optimizer step or zero_grad; through
\* a run of fit both optimizers have stepped exactly once for each training
\* batch gone through, so epochs * len(train_dataloader) times at the end.
C14_EvalLeavesModelAlone == []C14_NoTrainingEventInEval /\ [][C14_EvalStepFrame]_vars

C14_Witness ==
    /\ fit_pc = "val"
    /\ lb_pc = "returned"
    /\ opts = "None"
    /\ epoch = 1
    /\ crit_index = 1
    /\ val_index = 1
    /\ train_dataloader = ProgressDivisor
    /\ encoder_opt = 2 * ProgressDivisor
    /\ decoder_params = 2 * ProgressDivisor
    /\ trace = <<"eval", "encoder", "decoder", "criterion">>

\* C15: a call with average_batch = false and optimizers gets no further
\* than the check of lines 73-76: it ends there with an exception (no value
\* is returned), having made no decoder step, computed no loss, run no
\* backward, stepped or zeroed no optimizer, changed no parameter and
\* written no checkpoint; nothing runs after it.  Only that combination is
\* rejected.
C15_RejectionLeavesNoEffect ==
    /\ (~average_batch /\ opts = "optims" /\
          lb_pc \notin {"entry", "encode", "draw", "check"}) =>
          /\ lb_pc = "raised"
          /\ error \in {"SystemExit", "NameError"}
          /\ dec_calls = <<>>
          /\ \A i \in 1..Len(trace) :
                trace[i] \notin ({"decoder", "criterion"} \cup TrainingOnlyEvents)
          /\ loss = 0
          /\ result = 0
          /\ outputs = ZerosLike(target_len)
          /\ SteppedOnceEach(0)
          /\ checkpoint = <<>>
    /\ error \in {"SystemExit", "NameError"} =>
          ~average_batch /\ opts = "optims"

C15_Witness ==
    /\ lb_pc = "raised"
    /\ error = "SystemExit"
    /\ ~average_batch
    /\ opts = "optims"
    /\ trace = <<"train", "encoder">>
    /\ target_len = MaxLen

IsTargetFrame(f) == \E s \in 0..MaxLen : f = TargetFrame(s)

\* Every decoder input after the first is the target of the timestep before.
AllTeacherForced ==
    \A i \in 2..Len(dec_calls) :
        dec_calls[i].input = TargetFrame(dec_calls[i].t - 1)

\* Every decoder input after the first is what was written to outputs for
\* the timestep before: the decoder's own output, normalized if asked.
AllSelfFed ==
    \A i \in 2..Len(dec_calls) :
        /\ dec_calls[i].input = StepOutput(dec_calls[i - 1].output)
        /\ dec_calls[i].input = outputs[dec_calls[i].t]
        /\ ~IsTargetFrame(dec_calls[i].input)

C16_Unmixed ==
    /\ lb_pc \in {"entry", "encode", "draw"} => dec_calls = <<>>
    /\ IF use_teacher_forcing THEN AllTeacherForced ELSE AllSelfFed
    /\ \A i \in 1..Len(dec_calls) : dec_calls[i].t = i - 1

C16_DrawnOnce ==
    use_teacher_forcing' # use_teacher_forcing =>
        /\ lb_pc = "draw"
        /\ dec_calls = <<>>

\* C16: the teacher-forcing decision is made at one place, before any
\* decoder step, and does not change afterwards; whatever the ratio, the
\* decoder inputs after the first are all targets (decision true) or all
\* the call's own previous outputs (decision false), never some of each.
C16_OneDrawPerBatch == []C16_Unmixed /\ [][C16_DrawnOnce]_vars

C16_Witness ==
    /\ lb_pc = "returned"
    /\ lb_teacher_forcing_ratio = Frac(1, 2)
    /\ use_teacher_forcing
    /\ Len(dec_calls) = MaxLen
    /\ dec_calls[1].output = AxisFrame
    /\ dec_calls[2].input = TargetFrame(0)
    /\ dec_calls[MaxLen].input = TargetFrame(MaxLen - 2)

\* The positions of trace that hold the event e.
Positions(e) == {i \in 1..Len(trace) : trace[i] = e}

\* C17: a call has invoked the encoder exactly once when it is past line
\* 64, and not before; every decoder step comes after that invocation; the
\* first decoder step is given the encoder's final hidden state and the
\* all-ones frame, and the step of timestep t > 0 is given the hidden state
\* the step of timestep t - 1 returned.
C17_EncoderOnceThenChain ==
    /\ Cardinality(Positions("encoder")) =
          IF lb_pc \in {"idle", "entry", "encode"} THEN 0 ELSE 1
    /\ \A i \in Positions("decoder") : \A j \in Positions("encoder") : j < i
    /\ Cardinality(Positions("decoder")) = Len(dec_calls)
    /\ \A i \in 1..Len(dec_calls) :
          /\ dec_calls[i].t = i - 1
          /\ i = 1 => /\ dec_calls[i].hidden = <<"encoder">>
                       /\ dec_calls[i].input = ConstFrame(<<2, 2, 2, 2>>)
          /\ i > 1 => dec_calls[i].hidden = <<"decoder", i - 2>>
    /\ lb_pc = "loop" =>
          decoder_hidden = IF t = 0 THEN <<"encoder">> ELSE <<"decoder", t - 1>>

C17_Witness ==
    /\ lb_pc = "returned"
    /\ use_attention
    /\ Len(dec_calls) = MaxLen
    /\ dec_calls[1].hidden = <<"encoder">>
    /\ dec_calls[2].hidden = <<"decoder", 0>>
    /\ dec_calls[MaxLen].hidden = <<"decoder", MaxLen - 2>>
    /\ dec_calls[MaxLen].attention
    /\ trace[2] = "encoder"

\* The call is at or past its first model invocation (line 64).
Invoking == lb_pc \notin {"idle", "entry"}

\* C18: through a run of fit, whenever a call of loss_batch invokes the
\* encoder or the decoder (and until the call ends) both models are in
\* training mode if the call has optimizers and both in evaluation mode if
\* it has none; the first training call of a later epoch finds the models
\* in the evaluation mode the validation batches left and runs in training
\* mode all the same.
C18_ModeFollowsOpts ==
    /\ Invoking =>
          /\ encoder_mode = decoder_mode
          /\ (encoder_mode = "train") <=> (opts = "optims")
          /\ (encoder_mode = "eval") <=> (opts = "None")
    /\ (fit_pc = "train" /\ Invoking) => opts = "optims"
    /\ (fit_pc = "val" /\ Invoking) => opts = "None"
    /\ (/\ fit_pc = "train"
        /\ lb_pc = "entry"
        /\ epoch > 0
        /\ index = 0
        /\ val_dataloader > 0
        /\ validation_criteria # <<>>) => encoder_mode = "eval" /\ decoder_mode = "eval"

C18_Witness ==
    /\ fit_pc = "train"
    /\ lb_pc = "loop"
    /\ epoch = 2
    /\ index = 0
    /\ train_dataloader = ProgressDivisor
    /\ val_dataloader = MaxVal
    /\ Len(validation_criteria) = MaxCrit
    /\ trace = <<"train", "encoder">>
    /\ encoder_mode = "train"
    /\ decoder_mode = "train"

\* Epoch e (1-based) has a criterion-0 mean that is a number and that no
\* epoch so far goes below, and it is the earliest such epoch.
IsBestEpoch(e) ==
    /\ e \in 1..Len(val_history)
    /\ ~IsNaNR(val_history[e])
    /\ \A j \in 1..Len(val_history) :
          \/ IsNaNR(val_history[j])
          \/ StrictlyBelow(val_history[e], val_history[j])
          \/ (j >= e /\ REq(val_history[e], val_history[j]))

\* The parameters and optimizer states at the end of epoch e (1-based):
\* every training batch of the epochs up to e has stepped both optimizers.
StateAtEndOf(e) ==
    [encoder_state_dict |-> e * train_dataloader,
     decoder_state_dict |-> e * train_dataloader,
     optimizerA_state_dict |-> e * train_dataloader,
     optimizerB_state_dict |-> e * train_dataloader]

\* C19: the file at model_file_path holds at most one checkpoint; it holds
\* one exactly when some epoch so far had a criterion-0 mean that is a
\* number, and then it holds the parameters and optimizer states of the
\* end of the earliest epoch with the lowest such mean, whatever training
\* later epochs have done to the live parameters.
C19_CheckpointIsBestEpoch ==
    /\ Len(checkpoint) <= 1
    /\ (checkpoint # <<>>) <=> (\E e \in 1..Len(val_history) : IsBestEpoch(e))
    /\ \A e \in 1..Len(val_history) :
          IsBestEpoch(e) => checkpoint = <<StateAtEndOf(e)>>

C19_Witness ==
    /\ fit_pc = "done"
    /\ train_dataloader = ProgressDivisor
    /\ Len(val_history) >= 4
    /\ StrictlyBelow(val_history[2], val_history[1])
    /\ StrictlyBelow(val_history[2], val_history[3])
    /\ REq(val_history[4], val_history[2])
    /\ checkpoint = <<StateAtEndOf(2)>>
    /\ encoder_params = epochs * ProgressDivisor
    /\ encoder_params > checkpoint[1].encoder_state_dict

====
